---- MODULE Spec2Model ----
(***************************************************************************)
(* gotm (src/main.go): a packet recorder.  Sniff workers (doSniff) read    *)
(* frames, keep a per-worker flow table, accept the head of every flow and *)
(* hand accepted frames over a bounded channel to the writer loop of main, *)
(* which appends them to the current pcap file, rotates the file on a      *)
(* ticker and finalizes it on a signal.                                    *)
(*                                                                         *)
(* Time is a discrete clock `now`; every time.Now() of one step reads it.  *)
(* Frame lengths, cutoffs, intervals and the channel capacity are scaled   *)
(* down from the flag defaults; the comparisons are those of the source.   *)
(* The capture library, the metrics endpoint and gzip are not modelled     *)
(* (writeCompressed = false, the flag's default): a worker's read never    *)
(* fails or ends, handle.Stats() succeeds, and the NIC gauges, the expiry  *)
(* duration counter and the unread removedFlows counter are left out.      *)
(* A frame is known to the writer by its worker and its capture number.    *)
(***************************************************************************)
EXTENDS Naturals, Integers, Sequences, FiniteSets, Bags, TLC

(* ---------------------------------------------------------------- bounds *)
\* frames one worker reads in a run
MaxFrames == 4
\* the clock stops here
MaxTime == 3
\* main.go:287 compares speedup with 5000; scaled
HousekeepEvery == 2
\* -bytecutoff (its value in every specification but SpecLarge), -packetcutoff,
\* -flowtimeout, -timeinterval, -rotationinterval
ByteCutoff == 3
flowPacketCutoff == 3
flowTimeout == 1
packetTimeInterval == 1
rotationInterval == 1
\* main.go:31 (16 GiB), scaled
LARGE_FLOW_SIZE == 5
\* main.go:435 makes the channel with 500000 slots; scaled
ChanCap == 2
\* frames a worker reads in the specifications of the writer
WriterFrames == 2
\* sweeps run in a row in the sweep's own specification
MaxSweeps == 2
\* clock units in one second of the dated file name (main.go:395)
TicksPerSecond == 2

(* ------------------------------------------------------------- constants *)
MINIMUM_IP_PACKET_SIZE == 58
\* mustAtoiWithDefault(workerCountString, 1)
workerCount == 1
\* make(chan os.Signal, 2)
SignalBuf == 2

Workers == 0 .. (workerCount - 1)
\* the workers of a run with SNF_NUM_RINGS=2
Rings == {0, 1}
\* five-tuples on the wire
Keys == {"A", "B"}
\* len(packetData) of the frames on the wire
FrameLens == {40, 59, 61}

VARIABLES
  now,          \* the wall clock
  seen,         \* seen[w]: map[FiveTuple]*trackedFlow of worker w
  cnt,          \* cnt[w]: totalFlows, totalPackets, totalBytes, outputPackets, outputBytes
  lastcleanup,  \* lastcleanup[w]
  speedup,      \* speedup[w]
  wpc,          \* wpc[w]: "read" (at 232), "send" (blocked at 280), "cleanup" (at 285)
  frame,        \* frame[w]: the frame of the current loop iteration (packetData, ci, flow)
  nread,        \* nread[w]: frames read so far (the capture order)
  met,          \* met[w]: the exported per-worker metrics
  mFlowSize,    \* the flow-size histogram: the bag of observed values
  chan,         \* pcapWriterChan
  mpc,          \* main: "recover" (at 451), "open" (at 454), "loop" (at 459)
  exitCode,     \* -1 while the process runs, else its exit status
  tmpFile,      \* <<>>: no file under the current name; <<c>>: it exists with frames c
  dated,        \* the dated tree: name (second) -> frames
  writerOpen,   \* pcapWriter is an open handle
  tickPending,  \* a tick waits in rotationTicker.C
  nextTickAt,   \* when the ticker fires next
  sigPending,   \* signals waiting in the signals channel
  flowByteCutoff, \* the -bytecutoff flag, set by flag.Parse()
  truth,        \* history: truth[w] what worker w has read, created and enqueued
  head,         \* history: head[w][k] accepted frames/bytes and first payload of the entry
  hist          \* history of the writer: rotations, recovered, renameErr, stale, ...

wvars == <<seen, cnt, lastcleanup, speedup, wpc, frame, nread, met, mFlowSize, head, truth>>
mvars == <<mpc, exitCode, tmpFile, dated, writerOpen, tickPending, nextTickAt, sigPending, hist>>
vars == <<now, wvars, chan, mvars, flowByteCutoff>>

Running == exitCode = -1

Min(a, b) == IF a < b THEN a ELSE b

(* ------------------------------------------------------------ flow table *)
\* &trackedFlow{}
NewFlow == [packets |-> 0, bytecount |-> 0, last |-> 0, logged |-> FALSE]

\* max(0, len - 58)
Payload(pl) == IF pl > MINIMUM_IP_PACKET_SIZE THEN pl - MINIMUM_IP_PACKET_SIZE ELSE 0

UpdateFlow(flw, pl, t) ==
  [flw EXCEPT !.last = t,
              !.packets = flw.packets + 1,
              !.bytecount = flw.bytecount + Payload(pl)]

\* the entry has reached a cutoff
Latched(flw) == flw.packets >= flowPacketCutoff \/ flw.bytecount >= flowByteCutoff

Accept_or(flw) == flw.bytecount < flowByteCutoff \/ flw.packets < flowPacketCutoff

Accept_packetsOnly(flw) == flw.packets < flowPacketCutoff

Accept(flw) == flw.bytecount < flowByteCutoff /\ flw.packets < flowPacketCutoff

\* the frame is not accepted and the else-if of 281 holds: a line is logged
LogsLarge_relog(flw, acc) == ~acc /\ flw.bytecount > LARGE_FLOW_SIZE

LogsLarge(flw, acc) == ~acc /\ flw.logged = FALSE /\ flw.bytecount > LARGE_FLOW_SIZE

LogLarge(flw, acc) ==
  IF LogsLarge(flw, acc)
  THEN [flw EXCEPT !.logged = TRUE]
  ELSE flw

\* flw := seen[flow]; flw == nil
IsNewFlow_lazy(tbl, k, t) == k \notin DOMAIN tbl \/ t - tbl[k].last > flowTimeout

IsNewFlow(tbl, k, t) == k \notin DOMAIN tbl

\* time.Since(lastcleanup) > packetTimeInterval
SweepDue_ge(last, t) == t - last >= packetTimeInterval

SweepDue(last, t) == t - last > packetTimeInterval

Expired_ge(flw, t) == t - flw.last >= flowTimeout

Expired(flw, t) == t - flw.last > flowTimeout

\* the keys the sweep at time t collects in `remove`
Remove_first(tbl, t) ==
  LET all == {k \in DOMAIN tbl : Expired(tbl[k], t)}
  IN IF all = {} THEN {} ELSE {CHOOSE k \in all : TRUE}

Remove(tbl, t) == {k \in DOMAIN tbl : Expired(tbl[k], t)}

Delete(tbl, rem) == [k \in (DOMAIN tbl) \ rem |-> tbl[k]]

RECURSIVE Observed(_, _)
\* the bag of mFlowSize.Observe(bytecount) calls for the keys in rem
Observed(tbl, rem) ==
  IF rem = {} THEN EmptyBag
  ELSE LET k == CHOOSE x \in rem : TRUE
       IN SetToBag({tbl[k].bytecount}) (+) Observed(tbl, rem \ {k})

(* ------------------------------------------------------------ doSniff *)
ZeroCnt == [totalFlows |-> 0, totalPackets |-> 0, totalBytes |-> 0,
            outputPackets |-> 0, outputBytes |-> 0]

ZeroMet == [mFlows |-> 0, mPackets |-> 0, mBytes |-> 0, mBytesOutput |-> 0,
            mOutput |-> 0, mActiveFlows |-> 0, mExpired |-> 0]

NoFrame == [n |-> 0, key |-> "A", len |-> 0]

\* history of a new entry whose first frame has length pl: the frames and payload
\* bytes accepted for it, its first payload, what became of the frame that
\* first brought bytecount to the byte cutoff, the large-flow lines logged for
\* it, and whether a frame came to it when it was cut off and had idled beyond
\* the flow timeout
NewHead(pl) == [accepted |-> 0, accBytes |-> 0, firstPl |-> Payload(pl),
                cross |-> "none", crossAt |-> 0, logs |-> 0, idleHit |-> FALSE]

\* history of a worker: entries created, frames and bytes read, frames and
\* bytes put into the channel
ZeroTruth == [flows |-> 0, packets |-> 0, bytes |-> 0, outPackets |-> 0, outBytes |-> 0]

\* mFlows.Add ... mOutput.Add, mActiveFlows.Set, mExpired.Set (313-331): the
\* metrics m after the flush of the local counters c, the table holding
\* `active` entries and the sweep, if it ran, having removed `expired`
FlushMet_swap(m, c, active, swept, expired) ==
  [mFlows       |-> m.mFlows + c.totalFlows,
   mPackets     |-> m.mPackets + c.outputPackets,
   mBytes       |-> m.mBytes + c.outputBytes,
   mBytesOutput |-> m.mBytesOutput + c.totalBytes,
   mOutput      |-> m.mOutput + c.totalPackets,
   mActiveFlows |-> active,
   mExpired     |-> IF swept THEN expired ELSE m.mExpired]

FlushMet_staleGauge(m, c, active, swept, expired) ==
  [mFlows       |-> m.mFlows + c.totalFlows,
   mPackets     |-> m.mPackets + c.totalPackets,
   mBytes       |-> m.mBytes + c.totalBytes,
   mBytesOutput |-> m.mBytesOutput + c.outputBytes,
   mOutput      |-> m.mOutput + c.outputPackets,
   mActiveFlows |-> IF swept THEN active ELSE m.mActiveFlows,
   mExpired     |-> IF swept THEN expired ELSE m.mExpired]

FlushMet_set(m, c, active, swept, expired) ==
  [mFlows       |-> c.totalFlows,
   mPackets     |-> c.totalPackets,
   mBytes       |-> c.totalBytes,
   mBytesOutput |-> c.outputBytes,
   mOutput      |-> c.outputPackets,
   mActiveFlows |-> active,
   mExpired     |-> IF swept THEN expired ELSE m.mExpired]

FlushMet(m, c, active, swept, expired) ==
  [mFlows       |-> m.mFlows + c.totalFlows,
   mPackets     |-> m.mPackets + c.totalPackets,
   mBytes       |-> m.mBytes + c.totalBytes,
   mBytesOutput |-> m.mBytesOutput + c.outputBytes,
   mOutput      |-> m.mOutput + c.outputPackets,
   mActiveFlows |-> active,
   mExpired     |-> IF swept THEN expired ELSE m.mExpired]

\* One loop iteration from the read (232) to the sampling decision (272-284):
\* the frame is counted, its flow looked up or created and updated, and the
\* frame is accepted (the worker goes on to the send) or dropped.
ReadFrame(w, k, pl) ==
  /\ Running
  /\ wpc[w] = "read"
  /\ nread[w] < MaxFrames
  /\ LET isNew == IsNewFlow(seen[w], k, now)
         flw0  == IF isNew THEN NewFlow ELSE seen[w][k]
         flw1  == UpdateFlow(flw0, pl, now)
         acc   == Accept(flw1)
         flw2  == LogLarge(flw1, acc)
         h0    == IF isNew THEN NewHead(pl) ELSE head[w][k]
         h1    == IF acc THEN [h0 EXCEPT !.accepted = h0.accepted + 1,
                                         !.accBytes = h0.accBytes + Payload(pl)]
                  ELSE h0
         h2    == IF flw0.bytecount < flowByteCutoff /\ flw1.bytecount >= flowByteCutoff
                  THEN [h1 EXCEPT !.cross = IF acc THEN "accepted" ELSE "dropped",
                                  !.crossAt = flw1.packets]
                  ELSE h1
         h3    == [h2 EXCEPT !.logs = @ + (IF LogsLarge(flw1, acc) THEN 1 ELSE 0),
                             !.idleHit = @ \/ (~isNew /\ Latched(flw0)
                                               /\ now - flw0.last > flowTimeout)]
     IN /\ seen' = [seen EXCEPT ![w] = (k :> flw2) @@ seen[w]]
        /\ head' = [head EXCEPT ![w] = (k :> h3) @@ head[w]]
        /\ truth' = [truth EXCEPT ![w] =
                       [@ EXCEPT !.flows = @ + (IF isNew THEN 1 ELSE 0),
                                 !.packets = @ + 1,
                                 !.bytes = @ + pl]]
        /\ cnt' = [cnt EXCEPT ![w] =
                     [totalFlows    |-> cnt[w].totalFlows + (IF isNew THEN 1 ELSE 0),
                      totalPackets  |-> cnt[w].totalPackets + 1,
                      totalBytes    |-> cnt[w].totalBytes + pl,
                      outputPackets |-> cnt[w].outputPackets + (IF acc THEN 1 ELSE 0),
                      outputBytes   |-> cnt[w].outputBytes + (IF acc THEN pl ELSE 0)]]
        /\ wpc' = [wpc EXCEPT ![w] = IF acc THEN "send" ELSE "cleanup"]
  /\ nread' = [nread EXCEPT ![w] = nread[w] + 1]
  /\ frame' = [frame EXCEPT ![w] = [n |-> nread[w] + 1, key |-> k, len |-> pl]]
  /\ UNCHANGED <<flowByteCutoff, now, lastcleanup, speedup, met, mFlowSize, chan, mvars>>

\* a send on the channel q of make(chan PcapFrame, 500000) can proceed
CanSend_always(q) == TRUE

CanSend(q) == Len(q) < ChanCap

\* the channel q after the send of f: channels are first in, first out
Enqueue_front(q, f) == <<f>> \o q

Enqueue(q, f) == Append(q, f)

\* writerchan <- PcapFrame{ci, packetDataCopy} (280): blocks while the channel is full
SendFrame(w) ==
  /\ Running
  /\ wpc[w] = "send"
  /\ CanSend(chan)
  /\ chan' = Enqueue(chan, [src |-> w, n |-> frame[w].n])
  /\ wpc' = [wpc EXCEPT ![w] = "cleanup"]
  /\ truth' = [truth EXCEPT ![w] = [@ EXCEPT !.outPackets = @ + 1,
                                              !.outBytes = @ + frame[w].len]]
  /\ UNCHANGED <<flowByteCutoff, now, seen, cnt, lastcleanup, speedup, frame, nread, met, mFlowSize,
                 head, mvars>>

\* The cleanup part of the iteration (285-336): every HousekeepEvery-th frame
\* the sweep runs if it is due, and the local counters are flushed.
Cleanup(w) ==
  /\ Running
  /\ wpc[w] = "cleanup"
  /\ wpc' = [wpc EXCEPT ![w] = "read"]
  /\ IF speedup[w] + 1 = HousekeepEvery
     THEN LET due == SweepDue(lastcleanup[w], now)
              rem == IF due THEN Remove(seen[w], now) ELSE {}
              tbl == Delete(seen[w], rem)
          IN /\ speedup' = [speedup EXCEPT ![w] = 0]
             /\ lastcleanup' = [lastcleanup EXCEPT ![w] = IF due THEN now ELSE @]
             /\ seen' = [seen EXCEPT ![w] = tbl]
             /\ head' = [head EXCEPT ![w] = Delete(head[w], rem)]
             /\ mFlowSize' = mFlowSize (+) Observed(seen[w], rem)
             /\ met' = [met EXCEPT ![w] =
                  FlushMet(met[w], cnt[w], Cardinality(DOMAIN tbl), due, Cardinality(rem))]
             /\ cnt' = [cnt EXCEPT ![w] = ZeroCnt]
     ELSE /\ speedup' = [speedup EXCEPT ![w] = speedup[w] + 1]
          /\ UNCHANGED <<lastcleanup, seen, head, mFlowSize, met, cnt>>
  /\ UNCHANGED <<flowByteCutoff, now, frame, nread, chan, mvars, truth>>

\* The sweep of 294-306 and 313 on its own, as sweep(now) of the flow table.
SweepOnly(w) ==
  /\ Running
  /\ hist.sweeps < MaxSweeps
  /\ LET rem == Remove(seen[w], now)
     IN /\ lastcleanup' = [lastcleanup EXCEPT ![w] = now]
        /\ seen' = [seen EXCEPT ![w] = Delete(seen[w], rem)]
        /\ head' = [head EXCEPT ![w] = Delete(head[w], rem)]
        /\ mFlowSize' = mFlowSize (+) Observed(seen[w], rem)
        /\ met' = [met EXCEPT ![w].mExpired = Cardinality(rem)]
  /\ hist' = [hist EXCEPT !.sweeps = @ + 1]
  /\ UNCHANGED <<flowByteCutoff, truth, now, cnt, speedup, wpc, frame, nread, chan, mpc, exitCode, tmpFile,
                 dated, writerOpen, tickPending, nextTickAt, sigPending>>

\* the wall clock advances
Tick ==
  /\ Running
  /\ now < MaxTime
  /\ now' = now + 1
  /\ UNCHANGED <<flowByteCutoff, wvars, chan, mvars>>

(* ------------------------------------------------------- file manager *)
EmptyFn == [x \in {} |-> <<>>]

\* what a crashed earlier run left in the current file
StaleFrames == <<[src |-> -1, n |-> 1]>>

\* time.Now().Format("2006/01/02/2006-01-02T15-04-05.pcap"): the time cut to the second
DatePart(t) == t \div TicksPerSecond

\* renamePcap(tempName, outputPath) at time t, the operating system answering f:
\* err is the error returned, tmp and dtd the files afterwards.
renamePcap_swallow(tmp, dtd, t, f) ==
  IF f \in {"mkdir", "rename"} \/ tmp = <<>>
  THEN [err |-> FALSE, moved |-> FALSE, tmp |-> tmp, dtd |-> dtd]
  ELSE [err |-> FALSE, moved |-> TRUE, tmp |-> <<>>,
        dtd |-> (DatePart(t) :> tmp[1]) @@ dtd]

renamePcap(tmp, dtd, t, f) ==
  IF f = "mkdir"
  THEN [err |-> TRUE, moved |-> FALSE, tmp |-> tmp, dtd |-> dtd]
  ELSE IF tmp = <<>>
  THEN [err |-> FALSE, moved |-> FALSE, tmp |-> tmp, dtd |-> dtd]
  ELSE IF f = "rename"
  THEN [err |-> TRUE, moved |-> FALSE, tmp |-> tmp, dtd |-> dtd]
  ELSE [err |-> FALSE, moved |-> TRUE, tmp |-> <<>>,
        dtd |-> (DatePart(t) :> tmp[1]) @@ dtd]

\* openPcap(baseFilename): os.Create truncates what is there, then the header is written
openPcap_swallow(tmp, f) ==
  IF f = "create"
  THEN [err |-> FALSE, tmp |-> tmp]
  ELSE [err |-> FALSE, tmp |-> <<<<>>>>]

openPcap(tmp, f) ==
  IF f = "create"
  THEN [err |-> TRUE, tmp |-> tmp]
  ELSE [err |-> FALSE, tmp |-> <<<<>>>>]

(* ------------------------------------------------------------------ main *)
Fatal == exitCode' = 1

\* renamePcap(currentFileName, writeOutputPath) at 451; its result is not looked at
Recover(f) ==
  /\ Running
  /\ mpc = "recover"
  /\ LET r == renamePcap(tmpFile, dated, now, f)
     IN /\ tmpFile' = r.tmp
        /\ dated' = r.dtd
        /\ hist' = [hist EXCEPT !.renameErr = @ \/ r.err,
                                !.recovered = r.moved,
                                !.moved = @ + (IF r.moved THEN 1 ELSE 0)]
  /\ mpc' = "open"
  /\ UNCHANGED <<flowByteCutoff, now, wvars, chan, exitCode, writerOpen, tickPending, nextTickAt,
                 sigPending>>

\* pcapWriter, err := openPcap(currentFileName) at 454-457
Open(f) ==
  /\ Running
  /\ mpc = "open"
  /\ LET o == openPcap(tmpFile, f)
     IN IF o.err
        THEN /\ Fatal
             /\ UNCHANGED <<tmpFile, writerOpen, mpc, hist>>
        ELSE /\ tmpFile' = o.tmp
             /\ writerOpen' = TRUE
             /\ mpc' = "loop"
             /\ hist' = [hist EXCEPT !.opens = @ + 1]
             /\ UNCHANGED exitCode
  /\ UNCHANGED <<flowByteCutoff, now, wvars, chan, dated, tickPending, nextTickAt, sigPending>>

\* case pcf := <-pcapWriterChan (461-466)
WriteFrame_batch(f) ==
  /\ Running
  /\ mpc = "loop"
  /\ Len(chan) = ChanCap
  /\ chan' = Tail(chan)
  /\ IF f = "write"
     THEN /\ writerOpen' = FALSE
          /\ Fatal
          /\ UNCHANGED <<tmpFile, hist>>
     ELSE /\ tmpFile' = <<Append(tmpFile[1], Head(chan))>>
          /\ hist' = [hist EXCEPT !.writes = @ + 1]
          /\ UNCHANGED <<writerOpen, exitCode>>
  /\ UNCHANGED <<flowByteCutoff, now, wvars, mpc, dated, tickPending, nextTickAt, sigPending>>

WriteFrame(f) ==
  /\ Running
  /\ mpc = "loop"
  /\ chan # <<>>
  /\ chan' = Tail(chan)
  /\ IF f = "write"
     THEN /\ writerOpen' = FALSE
          /\ Fatal
          /\ UNCHANGED <<tmpFile, hist>>
     ELSE /\ tmpFile' = <<Append(tmpFile[1], Head(chan))>>
          /\ hist' = [hist EXCEPT !.writes = @ + 1]
          /\ UNCHANGED <<writerOpen, exitCode>>
  /\ UNCHANGED <<flowByteCutoff, now, wvars, mpc, dated, tickPending, nextTickAt, sigPending>>

\* case <-rotationTicker.C (468-482): close, rename, open
Rotate(f) ==
  /\ Running
  /\ mpc = "loop"
  /\ tickPending
  /\ tickPending' = FALSE
  /\ IF f = "close"
     THEN /\ Fatal
          /\ writerOpen' = FALSE
          /\ UNCHANGED <<tmpFile, dated, hist>>
     ELSE LET r == renamePcap(tmpFile, dated, now, f)
              o == openPcap(r.tmp, f)
              h == [hist EXCEPT !.renameErr = @ \/ r.err,
                                !.moved = @ + (IF r.moved THEN 1 ELSE 0)]
          IN IF r.err
             THEN /\ Fatal
                  /\ writerOpen' = FALSE
                  /\ hist' = h
                  /\ UNCHANGED <<tmpFile, dated>>
             ELSE IF o.err
             THEN /\ Fatal
                  /\ writerOpen' = FALSE
                  /\ tmpFile' = r.tmp
                  /\ dated' = r.dtd
                  /\ hist' = h
             ELSE /\ tmpFile' = o.tmp
                  /\ dated' = r.dtd
                  /\ writerOpen' = TRUE
                  /\ hist' = [h EXCEPT !.rotations = @ + 1, !.opens = @ + 1]
                  /\ UNCHANGED exitCode
  /\ UNCHANGED <<flowByteCutoff, now, wvars, chan, mpc, nextTickAt, sigPending>>

\* case <-signals (484-494): close, rename, os.Exit(0)
Shutdown(f) ==
  /\ Running
  /\ mpc = "loop"
  /\ sigPending > 0
  /\ sigPending' = sigPending - 1
  /\ writerOpen' = FALSE
  /\ IF f = "close"
     THEN /\ Fatal
          /\ UNCHANGED <<tmpFile, dated, hist>>
     ELSE LET r == renamePcap(tmpFile, dated, now, f)
          IN /\ tmpFile' = r.tmp
             /\ dated' = r.dtd
             /\ hist' = [hist EXCEPT !.renameErr = @ \/ r.err,
                                     !.moved = @ + (IF r.moved THEN 1 ELSE 0)]
             /\ exitCode' = IF r.err THEN 1 ELSE 0
  /\ UNCHANGED <<flowByteCutoff, now, wvars, chan, mpc, tickPending, nextTickAt>>

\* the runtime's ticker of time.NewTicker(rotationInterval) (448): a tick is put
\* into the one-slot channel, or dropped when one waits there
TickerFire ==
  /\ Running
  /\ now >= nextTickAt
  /\ tickPending' = TRUE
  /\ nextTickAt' = nextTickAt
                   + rotationInterval * (((now - nextTickAt) \div rotationInterval) + 1)
  /\ UNCHANGED <<flowByteCutoff, now, wvars, chan, mpc, exitCode, tmpFile, dated, writerOpen,
                 sigPending, hist>>

\* signal.Notify(signals, os.Interrupt, syscall.SIGTERM) (446-447): a signal is
\* queued, or dropped when the channel is full
Signal ==
  /\ Running
  /\ sigPending < SignalBuf
  /\ sigPending' = sigPending + 1
  /\ UNCHANGED <<flowByteCutoff, now, wvars, chan, mpc, exitCode, tmpFile, dated, writerOpen,
                 tickPending, nextTickAt, hist>>

(* --------------------------------------------------------- specifications *)
\* The state when main has started the workers (439-448): stale tells whether
\* an earlier run left a current file behind, bc is the -bytecutoff flag.
InitFlags(stale, t, tbl, bc) ==
  /\ now = t
  /\ seen = [w \in Rings |-> IF w \in Workers THEN tbl ELSE EmptyFn]
  /\ head = [w \in Rings |-> [k \in DOMAIN seen[w] |-> NewHead(0)]]
  /\ cnt = [w \in Rings |-> ZeroCnt]
  /\ lastcleanup = [w \in Rings |-> 0]
  /\ speedup = [w \in Rings |-> 0]
  /\ wpc = [w \in Rings |-> "read"]
  /\ frame = [w \in Rings |-> NoFrame]
  /\ nread = [w \in Rings |-> 0]
  /\ met = [w \in Rings |-> ZeroMet]
  /\ truth = [w \in Rings |-> ZeroTruth]
  /\ flowByteCutoff = bc
  /\ mFlowSize = EmptyBag
  /\ chan = <<>>
  /\ mpc = "recover"
  /\ exitCode = -1
  /\ tmpFile = IF stale THEN <<StaleFrames>> ELSE <<>>
  /\ dated = EmptyFn
  /\ writerOpen = FALSE
  /\ tickPending = FALSE
  /\ nextTickAt = rotationInterval
  /\ sigPending = 0
  /\ hist = [stale |-> stale, recovered |-> FALSE, renameErr |-> FALSE,
             rotations |-> 0, moved |-> 0, opens |-> 0, writes |-> 0, sweeps |-> 0]

InitWith(stale, t, tbl) == InitFlags(stale, t, tbl, ByteCutoff)

\* The sampler: one worker on arbitrary traffic, the writer draining the channel,
\* no I/O failure, no rotation tick and no signal in the window.
SniffInit == InitWith(FALSE, 0, EmptyFn)

SniffNext ==
  \/ Tick
  \/ \E w \in Workers, k \in Keys, pl \in FrameLens : ReadFrame(w, k, pl)
  \/ \E w \in Workers : SendFrame(w)
  \/ \E w \in Workers : Cleanup(w)
  \/ Recover("ok")
  \/ Open("ok")
  \/ WriteFrame("ok")

SpecSniff == SniffInit /\ [][SniffNext]_vars

\* The sampler on one five-tuple, with -bytecutoff below and above LARGE_FLOW_SIZE.
LargeInit == \E bc \in {ByteCutoff, LARGE_FLOW_SIZE + 2} : InitFlags(FALSE, 0, EmptyFn, bc)

LargeNext ==
  \/ Tick
  \/ \E w \in Workers, pl \in FrameLens : ReadFrame(w, "A", pl)
  \/ \E w \in Workers : SendFrame(w)
  \/ \E w \in Workers : Cleanup(w)
  \/ Recover("ok")
  \/ Open("ok")
  \/ WriteFrame("ok")

SpecLarge == LargeInit /\ [][LargeNext]_vars

\* The writer: every I/O outcome, ticks and signals; the worker on light traffic.
WriterInit == \E stale \in BOOLEAN : InitWith(stale, 0, EmptyFn)

WriterNext ==
  \/ Tick
  \/ TickerFire
  \/ Signal
  \/ \E w \in Workers : nread[w] < WriterFrames /\ ReadFrame(w, "A", 40)
  \/ \E w \in Workers : SendFrame(w)
  \/ \E w \in Workers : Cleanup(w)
  \/ \E f \in {"ok", "mkdir", "rename"} : Recover(f)
  \/ \E f \in {"ok", "create"} : Open(f)
  \/ \E f \in {"ok", "write"} : WriteFrame(f)
  \/ \E f \in {"ok", "close", "mkdir", "rename", "create"} : Rotate(f)
  \/ \E f \in {"ok", "close", "mkdir", "rename"} : Shutdown(f)

SpecWriter == WriterInit /\ [][WriterNext]_vars

\* Two workers (SNF_NUM_RINGS=2) on light traffic, the writer with rotation
\* ticks and no I/O failure.
MultiInit == InitWith(FALSE, 0, EmptyFn)

MultiNext ==
  \/ Tick
  \/ TickerFire
  \/ \E w \in Rings : nread[w] < WriterFrames /\ ReadFrame(w, "A", 40)
  \/ \E w \in Rings : SendFrame(w)
  \/ \E w \in Rings : Cleanup(w)
  \/ Recover("ok")
  \/ Open("ok")
  \/ WriteFrame("ok")
  \/ Rotate("ok")

SpecMulti == MultiInit /\ [][MultiNext]_vars

\* The writer loop under fair scheduling: main goes on from line to line, and
\* the select of line 460 picks among its ready cases at random, so a case
\* that stays ready is taken in the end.  No I/O failure; signals may come.
LiveInit == InitWith(FALSE, 0, EmptyFn)

LiveNext ==
  \/ Tick
  \/ TickerFire
  \/ Signal
  \/ \E w \in Workers : nread[w] < WriterFrames /\ ReadFrame(w, "A", 40)
  \/ \E w \in Workers : SendFrame(w)
  \/ \E w \in Workers : Cleanup(w)
  \/ Recover("ok")
  \/ Open("ok")
  \/ WriteFrame("ok")
  \/ Rotate("ok")
  \/ Shutdown("ok")

SpecLive ==
  /\ LiveInit
  /\ [][LiveNext]_vars
  /\ WF_vars(Recover("ok"))
  /\ WF_vars(Open("ok"))
  /\ WF_vars(WriteFrame("ok"))
  /\ WF_vars(Rotate("ok"))

\* The sweep as an operation on a flow table: tables a worker can hold at time t
\* (every entry has packets >= 1 and last <= t), swept with no frame in between.
FlowsAt(t) == [packets : {1}, bytecount : {0, 1}, last : 0 .. t, logged : {FALSE}]

Tables(t) == UNION {[S -> FlowsAt(t)] : S \in SUBSET Keys}

SweepInit == \E t \in 0 .. MaxTime : \E tbl \in Tables(t) : InitWith(FALSE, t, tbl)

SweepNext ==
  \/ Tick
  \/ \E w \in Workers : SweepOnly(w)

SpecSweep == SweepInit /\ [][SweepNext]_vars

(* ------------------------------------------------------------ sampler *)
\* C1: a flow whose entry has received K frames without reaching the byte cutoff
\* has had min(K, packet_cutoff) of them accepted.
C1_AcceptedIsMinOfFramesAndCutoff ==
  \A w \in Workers : \A k \in DOMAIN seen[w] :
    seen[w][k].bytecount < flowByteCutoff
      => head[w][k].accepted = Min(seen[w][k].packets, flowPacketCutoff)

\* C2: the frame that first brings a flow's bytecount to or above the byte
\* cutoff is itself accepted (while the packet cutoff is not reached).
C2_CrossingFrameAccepted ==
  \A w \in Workers : \A k \in DOMAIN head[w] :
    (head[w][k].cross # "none" /\ head[w][k].crossAt < flowPacketCutoff)
      => head[w][k].cross = "accepted"

\* C3: once an entry has packets >= packet_cutoff or bytecount >= byte_cutoff it
\* stays so while it is in the table, no frame of its five-tuple is accepted or
\* enqueued, and every later frame of it adds one to packets and sets last to now.
C3_CutoffIsLatch ==
  [][\A w \in Workers : \A k \in DOMAIN seen[w] :
       (Latched(seen[w][k]) /\ k \in DOMAIN seen'[w]) =>
         /\ Latched(seen'[w][k])
         /\ head'[w][k].accepted = head[w][k].accepted
         /\ (nread'[w] # nread[w] /\ frame'[w].key = k) =>
              /\ wpc'[w] = "cleanup"
              /\ chan' = chan
              /\ seen'[w][k].packets = seen[w][k].packets + 1
              /\ seen'[w][k].last = now
         /\ (Len(chan') > Len(chan) /\ wpc'[w] # wpc[w]) => frame[w].key # k
    ]_vars

\* a latched entry has taken a further frame, which was dropped
C3_Witness ==
  \E w \in Workers : \E k \in DOMAIN seen[w] :
    /\ Latched(seen[w][k])
    /\ seen[w][k].packets >= head[w][k].accepted + 2
    /\ frame[w].key = k
    /\ seen[w][k].last = now
    /\ now > 0

\* C4: the payload bytes of the frames accepted for an entry stay below
\* byte_cutoff plus the payload of the entry's first frame.
C4_AcceptedBytesBound ==
  \A w \in Workers : \A k \in DOMAIN head[w] :
    head[w][k].accBytes < flowByteCutoff + head[w][k].firstPl

\* an entry with accepted payload bytes has been cut off by the byte cutoff
C4_Witness ==
  \E w \in Workers : \E k \in DOMAIN head[w] :
    /\ head[w][k].accBytes > 0
    /\ head[w][k].accepted >= 2
    /\ seen[w][k].bytecount >= flowByteCutoff
    /\ seen[w][k].packets > head[w][k].accepted

\* copies of v among the bytecounts of the entries rem of tbl
Copies(tbl, rem, v) == Cardinality({k \in rem : tbl[k].bytecount = v})

\* C5: a sweep at time now removes exactly the entries with now - last >
\* flow_timeout, leaves the others as they are, and observes each removed
\* entry's bytecount once; no other step removes an entry or observes anything.
C5_SweepRemovesExactlyExpired ==
  [][\A w \in Workers :
       LET gone == {k \in DOMAIN seen[w] : now - seen[w][k].last > flowTimeout}
           vals == {seen[w][k].bytecount : k \in DOMAIN seen[w]}
                     \cup BagToSet(mFlowSize) \cup BagToSet(mFlowSize')
       IN IF lastcleanup'[w] # lastcleanup[w]
          THEN /\ DOMAIN seen'[w] = (DOMAIN seen[w]) \ gone
               /\ \A k \in DOMAIN seen'[w] : seen'[w][k] = seen[w][k]
               /\ \A v \in vals :
                    CopiesIn(v, mFlowSize') = CopiesIn(v, mFlowSize) + Copies(seen[w], gone, v)
          ELSE /\ DOMAIN seen[w] \subseteq DOMAIN seen'[w]
               /\ mFlowSize' = mFlowSize
    ]_vars

\* a sweep has just removed an expired entry and kept a live one
C5_Witness ==
  \E w \in Workers :
    /\ lastcleanup[w] = now
    /\ now > 0
    /\ wpc[w] = "read"
    /\ met[w].mExpired > 0
    /\ mFlowSize # EmptyBag
    /\ DOMAIN seen[w] # {}

C7_OneDatedFilePerFinalize ==
  (Running /\ mpc = "loop") =>
    /\ Cardinality(DOMAIN dated) = hist.rotations + (IF hist.recovered THEN 1 ELSE 0)
    /\ writerOpen
    /\ tmpFile # <<>>

\* C8: a stale current file is in the dated tree, as it was left, before a
\* worker enqueues a frame and before the new current file is created.
C8_StaleMovedBeforeNewFrames ==
  hist.stale =>
    /\ mpc = "recover" => (chan = <<>> /\ tmpFile = <<StaleFrames>>)
    /\ mpc # "recover" => \E nm \in DOMAIN dated : dated[nm] = StaleFrames

\* C9: handling a signal ends the process; it ends with status 0 only by
\* handling a signal, with the current file closed and renamed into the dated
\* tree; and where the status is 0 no file has the current name.
C9_CleanShutdown ==
  [][/\ exitCode' = 0 => (tmpFile' = <<>> /\ ~writerOpen')
     /\ (exitCode = -1 /\ exitCode' = 0) =>
          /\ sigPending' = sigPending - 1
          /\ writerOpen
          /\ tmpFile # <<>>
          /\ DatePart(now) \in DOMAIN dated'
          /\ dated'[DatePart(now)] = tmpFile[1]
     /\ sigPending' < sigPending => (exitCode' \in {0, 1} /\ ~writerOpen')
     /\ (sigPending' < sigPending /\ exitCode' = 1) =>
          (tmpFile' = tmpFile /\ dated' = dated)
    ]_vars

\* the process has exited with status 0 and a written frame is in the dated tree
C9_Witness ==
  /\ exitCode = 0
  /\ hist.writes > 0
  /\ \E nm \in DOMAIN dated : dated[nm] # <<>> /\ dated[nm] # StaleFrames

\* C10: once a finalize has failed for another reason than a missing source,
\* the process has terminated with a nonzero status.
C10_FinalizeFailureIsFatal ==
  hist.renameErr => (~Running /\ exitCode # 0)

(* ------------------------------------------------------------ metrics *)
\* C13: for every worker the exported accepted-packets counter is at most the
\* exported total-packets counter and the exported accepted-bytes counter is at
\* most the exported total-bytes counter, in every state.
C13_AcceptedAtMostTotal ==
  \A w \in Workers :
    /\ met[w].mOutput <= met[w].mPackets
    /\ met[w].mBytesOutput <= met[w].mBytes

\* counters have been flushed after accepted and dropped frames
C13_Witness ==
  \E w \in Workers :
    /\ met[w].mOutput > 0
    /\ met[w].mOutput < met[w].mPackets
    /\ met[w].mBytesOutput < met[w].mBytes

C15_LoggedOnceBeyondThreshold ==
  \A w \in Workers : \A k \in DOMAIN seen[w] :
    head[w][k].logs = IF seen[w][k].bytecount > LARGE_FLOW_SIZE THEN 1 ELSE 0

\* C15 amended: exactly one large-flow line has been logged for every entry that
\* is beyond LARGE_FLOW_SIZE and cut off (its latest frame was dropped), none for
\* any other entry, and the one-shot flag tells whether the line was logged.
C15_LoggedOnceWhenDroppedBeyondThreshold ==
  \A w \in Workers : \A k \in DOMAIN seen[w] :
    /\ head[w][k].logs =
         IF seen[w][k].bytecount > LARGE_FLOW_SIZE /\ Latched(seen[w][k]) THEN 1 ELSE 0
    /\ seen[w][k].logged = (head[w][k].logs = 1)

\* a frame has come to an entry that was beyond the threshold, cut off and
\* logged before that frame, and no second line was logged
C15_Witness ==
  \E w \in Workers : \E k \in DOMAIN seen[w] :
    /\ head[w][k].logs = 1
    /\ frame[w].key = k
    /\ wpc[w] = "cleanup"
    /\ seen[w][k].bytecount - Payload(frame[w].len) > LARGE_FLOW_SIZE
    /\ seen[w][k].packets - 1 >= flowPacketCutoff

(* -------------------------------------------------------- housekeeping *)
\* C16: a worker does its housekeeping (speedup back to 0, counters flushed) in
\* the cleanup of every HousekeepEvery-th frame it has read and in no other
\* step; the sweep runs (lastcleanup changes) exactly in a housekeeping with
\* now - lastcleanup > packetTimeInterval, and sets lastcleanup to now; so no
\* sweep runs less than that after the previous one, or without a frame.
C16_HousekeepingCadence ==
  [][\A w \in Workers :
       LET hk    == wpc[w] = "cleanup" /\ wpc'[w] = "read" /\ speedup'[w] = 0
           swept == lastcleanup'[w] # lastcleanup[w]
       IN /\ hk <=> (wpc[w] = "cleanup" /\ wpc'[w] = "read"
                       /\ nread[w] > 0 /\ nread[w] % HousekeepEvery = 0)
          /\ swept <=> (hk /\ now - lastcleanup[w] > packetTimeInterval)
          /\ swept => lastcleanup'[w] = now
          /\ ~hk => (met'[w] = met[w] /\ cnt'[w].totalPackets >= cnt[w].totalPackets)
          /\ hk => cnt'[w] = ZeroCnt
          /\ ~swept => DOMAIN seen[w] \subseteq DOMAIN seen'[w]
    ]_vars

\* a housekeeping has just run the sweep, later than packetTimeInterval after start
C16_Witness ==
  \E w \in Workers :
    /\ wpc[w] = "read"
    /\ speedup[w] = 0
    /\ nread[w] >= HousekeepEvery
    /\ lastcleanup[w] = now
    /\ now > packetTimeInterval

(* ------------------------------------------------------ flow lifetime *)
\* C19: a frame is handled as the first of a new flow (packets 1, bytecount its
\* payload, totalFlows + 1) exactly when its five-tuple has no entry in the
\* table, and entries leave the table only in a sweep that finds them timed
\* out; a frame for an entry continues its counters and sets last to now, and
\* if the entry is cut off, however long it has idled, the frame is dropped.
C19_FreshBudgetOnlyThroughSweep ==
  [][\A w \in Workers :
       /\ \A k \in Keys :
            (nread'[w] = nread[w] + 1 /\ frame'[w].key = k) =>
              IF k \in DOMAIN seen[w]
              THEN /\ seen'[w][k].packets = seen[w][k].packets + 1
                   /\ seen'[w][k].bytecount = seen[w][k].bytecount + Payload(frame'[w].len)
                   /\ seen'[w][k].last = now
                   /\ cnt'[w].totalFlows = cnt[w].totalFlows
                   /\ Latched(seen[w][k]) =>
                        /\ Latched(seen'[w][k])
                        /\ wpc'[w] = "cleanup"
                        /\ cnt'[w].outputPackets = cnt[w].outputPackets
                        /\ head'[w][k].accepted = head[w][k].accepted
              ELSE /\ seen'[w][k].packets = 1
                   /\ seen'[w][k].bytecount = Payload(frame'[w].len)
                   /\ cnt'[w].totalFlows = cnt[w].totalFlows + 1
       /\ \A k \in DOMAIN seen[w] :
            k \notin DOMAIN seen'[w] =>
              /\ lastcleanup'[w] # lastcleanup[w]
              /\ now - seen[w][k].last > flowTimeout
    ]_vars

\* a frame has come to a cut-off entry that had idled beyond the flow timeout
\* and was still in the table: the entry goes on, cut off, and the frame is dropped
C19_Witness ==
  \E w \in Workers : \E k \in DOMAIN seen[w] :
    /\ head[w][k].idleHit
    /\ frame[w].key = k
    /\ wpc[w] = "cleanup"
    /\ seen[w][k].last = now
    /\ seen[w][k].packets > head[w][k].accepted + 1

(* ------------------------------------------------- counter conservation *)
\* C18: between frames, for each of total packets, total bytes, accepted
\* packets, accepted bytes and new flows, the exported metric plus the worker's
\* local counter is the true count since the worker started: frames read,
\* bytes read, frames enqueued, bytes enqueued, entries created.
C18_CounterConservation ==
  \A w \in Workers :
    /\ met[w].mPackets + cnt[w].totalPackets = truth[w].packets
    /\ met[w].mBytes + cnt[w].totalBytes = truth[w].bytes
    /\ met[w].mFlows + cnt[w].totalFlows = truth[w].flows
    /\ wpc[w] = "read" =>
         /\ met[w].mOutput + cnt[w].outputPackets = truth[w].outPackets
         /\ met[w].mBytesOutput + cnt[w].outputBytes = truth[w].outBytes

\* counters have been flushed and frames of a new flow accepted since
C18_Witness ==
  \E w \in Workers :
    /\ wpc[w] = "read"
    /\ met[w].mOutput > 0
    /\ met[w].mFlows > 0
    /\ met[w].mPackets > met[w].mOutput
    /\ cnt[w].outputPackets > 0
    /\ cnt[w].totalFlows > 0

(* -------------------------------------------------- writer file states *)
\* C17: the writer dequeues a frame only in its loop with the current file open,
\* and the frame is appended once to that file and to no other; a rotation is
\* one step that takes no frame from the queue, moves the current file as a
\* whole into the dated tree and leaves a new, empty current file open; files
\* of the dated tree are never written to; nothing is written once the process
\* has ended; and while the loop runs the current file exists and is open.
C17_WriterFileStateMachine ==
  [][/\ chan' # chan /\ Len(chan') < Len(chan) + 1 =>
          /\ mpc = "loop" /\ writerOpen /\ tmpFile # <<>>
          /\ chan' = Tail(chan)
          /\ dated' = dated
          /\ IF exitCode' = -1
             THEN tmpFile' = <<Append(tmpFile[1], Head(chan))>> /\ writerOpen'
             ELSE tmpFile' = tmpFile /\ ~writerOpen'
     /\ (tickPending /\ ~tickPending') =>
          /\ chan' = chan
          /\ writerOpen /\ tmpFile # <<>>
          /\ exitCode' = -1 =>
               /\ writerOpen'
               /\ tmpFile' = <<<<>>>>
               /\ DatePart(now) \in DOMAIN dated'
               /\ dated'[DatePart(now)] = tmpFile[1]
          /\ exitCode' # -1 => ~writerOpen'
     /\ \A nm \in DOMAIN dated' :
          \/ nm \in DOMAIN dated /\ dated'[nm] = dated[nm]
          \/ tmpFile # <<>> /\ dated'[nm] = tmpFile[1] /\ nm = DatePart(now)
     /\ DOMAIN dated \subseteq DOMAIN dated'
     /\ exitCode # -1 => (tmpFile' = tmpFile /\ dated' = dated /\ chan' = chan)
     /\ (exitCode' = -1 /\ mpc' = "loop") => (writerOpen' /\ tmpFile' # <<>>)
    ]_vars

\* a frame was written to the current file, the file was rotated into the
\* dated tree, and a later frame has been written to the new current file
C17_Witness ==
  /\ exitCode = -1
  /\ hist.rotations > 0
  /\ tmpFile # <<>>
  /\ Len(tmpFile[1]) > 0
  /\ \E nm \in DOMAIN dated : \E i \in 1 .. Len(dated[nm]) : dated[nm][i].src \in Workers

(* ------------------------------------------------------- frame order *)
RECURSIVE FilesUpTo(_)
\* the frames of the dated files with names up to nm, in the order of the names
FilesUpTo(nm) ==
  IF nm < 0 THEN <<>>
  ELSE FilesUpTo(nm - 1) \o (IF nm \in DOMAIN dated THEN dated[nm] ELSE <<>>)

\* the frames on disk in the order of the files, the current file last
Output == FilesUpTo(DatePart(MaxTime)) \o (IF tmpFile = <<>> THEN <<>> ELSE tmpFile[1])

\* in s the frames of one worker are in capture order, each at most once
Ordered(s) ==
  \A i, j \in 1 .. Len(s) : (i < j /\ s[i].src = s[j].src) => s[i].n < s[j].n

\* C11: the frames of one worker are enqueued in capture order and written in
\* that order: over the dated files in the order of their names, the current
\* file and then the queue, a worker's frames appear in capture order, and the
\* frame a worker is about to enqueue was captured after all of them.
C11_PerWorkerOrder ==
  /\ Ordered(Output \o chan)
  /\ \A w \in Rings :
       wpc[w] = "send" =>
         \A i \in 1 .. Len(Output \o chan) :
           (Output \o chan)[i].src = w => (Output \o chan)[i].n < frame[w].n

\* two frames of one worker are on disk on the two sides of a rotation, with a
\* frame of the other worker written as well
C11_Witness ==
  /\ hist.rotations > 0
  /\ tmpFile # <<>>
  /\ \E w \in Rings :
       /\ \E nm \in DOMAIN dated : \E i \in 1 .. Len(dated[nm]) : dated[nm][i].src = w
       /\ \E i \in 1 .. Len(tmpFile[1]) : tmpFile[1][i].src = w
       /\ \E i \in 1 .. Len(Output) : Output[i].src \in Rings \ {w}

(* ------------------------------------------------------ back-pressure *)
\* C12: the channel never holds more than ChanCap frames; a worker at the send
\* reads no further frame and leaves the send only by appending its frame to a
\* channel that is not full; and the channel changes only by that append or by
\* the writer taking its first frame: no frame is discarded or overwritten.
C12_BackPressureByBlocking ==
  [][/\ Len(chan) <= ChanCap /\ Len(chan') <= ChanCap
     /\ \A w \in Rings :
          wpc[w] = "send" =>
            /\ nread'[w] = nread[w] /\ frame'[w] = frame[w]
            /\ Len(chan) = ChanCap => wpc'[w] = "send"
            /\ wpc'[w] # "send" =>
                 /\ wpc'[w] = "cleanup"
                 /\ chan' = Append(chan, [src |-> w, n |-> frame[w].n])
     /\ chan' # chan =>
          \/ chan # <<>> /\ chan' = Tail(chan) /\ hist'.writes = hist.writes + 1
          \/ \E w \in Rings :
               /\ wpc[w] = "send" /\ wpc'[w] = "cleanup"
               /\ chan' = Append(chan, [src |-> w, n |-> frame[w].n])
    ]_vars

\* a worker waits at the send with the channel full while the writer is writing
C12_Witness ==
  \E w \in Rings :
    /\ wpc[w] = "send"
    /\ Len(chan) = ChanCap
    /\ hist.writes > 0

(* ---------------------------------------------------------- liveness *)
\* frame n of worker w is in the channel
Queued(w, n) == \E i \in 1 .. Len(chan) : chan[i] = [src |-> w, n |-> n]

\* frame n of worker w is in the current file
InCurrentFile(w, n) ==
  /\ tmpFile # <<>>
  /\ \E i \in 1 .. Len(tmpFile[1]) : tmpFile[1][i] = [src |-> w, n |-> n]

\* C20: under fair scheduling of the writer loop every frame in the queue is in
\* the end written to the current file, and every pending rotation tick is in
\* the end handled, unless the process ends; the step that handles a signal
\* takes no frame from the queue, and nothing is written after it.
C20_EventualWrite ==
  /\ \A w \in Workers : \A n \in 1 .. WriterFrames :
       Queued(w, n) ~> (InCurrentFile(w, n) \/ ~Running)
  /\ tickPending ~> (~tickPending \/ ~Running)
  /\ [][/\ sigPending' < sigPending => (chan' = chan /\ ~Running')
        /\ ~Running => (chan' = chan /\ tmpFile' = tmpFile /\ dated' = dated)
       ]_vars

\* frames have been written on both sides of a rotation and the queue is empty
C20_Witness ==
  /\ Running
  /\ chan = <<>>
  /\ ~tickPending
  /\ hist.rotations > 0
  /\ hist.writes = WriterFrames
  /\ \E w \in Workers : InCurrentFile(w, WriterFrames)

====
